---- MODULE Spec2Model ----
(***************************************************************************)
(* setup-crate: a GitHub Action (src/src/index.ts, main) on top of the     *)
(* library @extractions/setup-crate (src/setup-crate/src/index.ts:         *)
(* getTargets, getRelease, handleBadBinaryPermissions, checkOrInstallTool).*)
(*                                                                         *)
(* Strings that the code only compares are TLA+ strings.  A string the     *)
(* code splits (the `repo` input) is a sequence of tokens, the separators  *)
(* "/" and "@" being tokens of their own.  A version string is a record    *)
(* [vs, major, minor, patch, pre]: vs counts its leading "v" characters,   *)
(* pre says whether it carries a prerelease tag.  A semver range string is *)
(* a TLA+ string that ParseRange turns into [caret, parts] (X for an "x",  *)
(* a "*" or a missing part).  A path is a sequence of its components.      *)
(***************************************************************************)
EXTENDS Integers, Sequences, FiniteSets, TLC

\* ------------------------------------------------------------------ bounds
\* Invocations of the program in one job (the tool cache and /tmp persist).
MaxRuns == 3
\* Pages one release listing serves at most.
MaxPages == 2
\* Releases one release listing holds at most, over all its pages.
MaxReleases == 2

\* ------------------------------------------------------- generic helpers
Last(s) == s[Len(s)]

Front(s) == SubSeq(s, 1, Len(s) - 1)

\* Array.prototype.find: the first element satisfying P, as a sequence of
\* length 0 (undefined) or 1.
FindFirst(s, P(_)) ==
  LET hits == SelectSeq(s, P)
  IN  IF hits = <<>> THEN <<>> ELSE <<Head(hits)>>

\* String.prototype.split(sep, 2) on a token sequence: the segments between
\* the separator tokens, cut to the first two.
RECURSIVE SplitAll(_, _)
SplitAll(s, sep) ==
  IF \A i \in 1..Len(s) : s[i] # sep THEN <<s>>
  ELSE LET k == CHOOSE i \in 1..Len(s) :
                  s[i] = sep /\ \A j \in 1..(i - 1) : s[j] # sep
       IN  <<SubSeq(s, 1, k - 1)>> \o SplitAll(SubSeq(s, k + 1, Len(s)), sep)

Split2(s, sep) ==
  LET all == SplitAll(s, sep)
  IN  IF Len(all) > 2 THEN SubSeq(all, 1, 2) ELSE all

\* A destructured element of a split: undefined (and "") are the empty
\* string here; both are falsy and both make tc.find throw for a name.
Str(seg) == IF seg = <<>> THEN "" ELSE seg[1]

Nth(segs, i) == IF i <= Len(segs) THEN Str(segs[i]) ELSE ""

\* ---------------------------------------------------------------- semver
X == 0 - 1

Ver(vs, major, minor, patch, pre) ==
  [vs |-> vs, major |-> major, minor |-> minor, patch |-> patch, pre |-> pre]

Triple(v) == <<v.major, v.minor, v.patch>>

\* Lexicographic order on <<major, minor, patch>>.
TripleLess(a, b) ==
  \/ a[1] < b[1]
  \/ a[1] = b[1] /\ a[2] < b[2]
  \/ a[1] = b[1] /\ a[2] = b[2] /\ a[3] < b[3]

TripleLeq(a, b) == a = b \/ TripleLess(a, b)

\* semver's SemVer constructor accepts at most one leading "v".
ValidVersion(v) == v.vs <= 1

\* semver.clean: leading "v" (and "=") characters dropped, then parsed.
Clean(v) == [v EXCEPT !.vs = 0]

\* semver.gt on valid versions: a prerelease sorts before its release.
VersionGt(a, b) ==
  \/ TripleLess(Triple(b), Triple(a))
  \/ Triple(a) = Triple(b) /\ b.pre /\ ~a.pre

\* The range strings of the model, parsed: README "semver specification".
ParseRange(s) ==
  CASE s = "*"       -> [caret |-> FALSE, parts |-> <<X>>]
    [] s = "0.10"    -> [caret |-> FALSE, parts |-> <<0, 10>>]
    [] s = "0.10.x"  -> [caret |-> FALSE, parts |-> <<0, 10, X>>]
    [] s = "0.10.3"  -> [caret |-> FALSE, parts |-> <<0, 10, 3>>]
    [] s = "^0.10.0" -> [caret |-> TRUE,  parts |-> <<0, 10, 0>>]
    [] OTHER         -> [caret |-> FALSE, parts |-> <<X>>]

Part(r, i) == IF i <= Len(r.parts) THEN r.parts[i] ELSE X

\* An interval lo <= v < hi of triples; any = TRUE is the comparator "".
Interval(lo, hi) == [any |-> FALSE, lo |-> lo, hi |-> hi]

AnyVersion == [any |-> TRUE, lo |-> <<0, 0, 0>>, hi |-> <<0, 0, 0>>]

\* A slip in replaceXRange: a missing patch widens to the next major.
ReplaceXRangeWide(r) ==
  LET M == Part(r, 1)
      m == Part(r, 2)
      p == Part(r, 3)
  IN  IF M = X THEN AnyVersion
      ELSE IF m = X \/ p = X
           THEN Interval(<<M, IF m = X THEN 0 ELSE m, 0>>, <<M + 1, 0, 0>>)
      ELSE Interval(<<M, m, p>>, <<M, m, p + 1>>)

\* semver's replaceXRange: 1 -> >=1.0.0 <2.0.0, 1.2 -> >=1.2.0 <1.3.0,
\* 1.2.3 -> exactly 1.2.3.
ReplaceXRange(r) ==
  LET M == Part(r, 1)
      m == Part(r, 2)
      p == Part(r, 3)
  IN  IF M = X THEN AnyVersion
      ELSE IF m = X THEN Interval(<<M, 0, 0>>, <<M + 1, 0, 0>>)
      ELSE IF p = X THEN Interval(<<M, m, 0>>, <<M, m + 1, 0>>)
      ELSE Interval(<<M, m, p>>, <<M, m, p + 1>>)

\* semver's replaceCaret: the leftmost non-zero part may not change.
ReplaceCaret(r) ==
  LET M == Part(r, 1)
      m == Part(r, 2)
      p == Part(r, 3)
  IN  IF M = X THEN AnyVersion
      ELSE IF m = X THEN Interval(<<M, 0, 0>>, <<M + 1, 0, 0>>)
      ELSE IF p = X THEN
             IF M = 0 THEN Interval(<<M, m, 0>>, <<M, m + 1, 0>>)
             ELSE Interval(<<M, m, 0>>, <<M + 1, 0, 0>>)
      ELSE IF M = 0 THEN
             IF m = 0 THEN Interval(<<0, 0, p>>, <<0, 0, p + 1>>)
             ELSE Interval(<<0, m, p>>, <<0, m + 1, 0>>)
      ELSE Interval(<<M, m, p>>, <<M + 1, 0, 0>>)

Desugar(r) == IF r.caret THEN ReplaceCaret(r) ELSE ReplaceXRange(r)

\* semver.satisfies(version, range) for a parsed range without prerelease
\* tags: an invalid version satisfies nothing, and a prerelease version
\* satisfies no such range (not even "*").
SatisfiesRange(v, r) ==
  LET iv == Desugar(r)
  IN  /\ ValidVersion(v)
      /\ ~v.pre
      /\ \/ iv.any
         \/ TripleLeq(iv.lo, Triple(v)) /\ TripleLess(Triple(v), iv.hi)

Satisfies(v, spec) == SatisfiesRange(v, ParseRange(spec))

\* ------------------------------------------------------------ getTargets
Musl64 == "x86_64-unknown-linux-musl"
Gnu64 == "x86_64-unknown-linux-gnu"
Darwin64 == "x86_64-apple-darwin"
Msvc64 == "x86_64-pc-windows-msvc"
MuslArm == "aarch64-unknown-linux-musl"
GnuArm == "aarch64-unknown-linux-gnu"
DarwinArm == "aarch64-apple-darwin"

\* An Error's message: <<kind, detail, detail>>.
Msg(kind, a, b) == <<kind, a, b>>

\* A slip in getTargets: the glibc target before the musl one, and a
\* target for arm64 Windows.
GetTargetsSlip(a, p) ==
  LET Ok(ts) == [ok |-> TRUE, targets |-> ts, err |-> Msg("", "", "")]
  IN  IF a = "x64" /\ p = "linux" THEN Ok(<<Gnu64, Musl64>>)
      ELSE IF a = "x64" /\ p = "darwin" THEN Ok(<<Darwin64>>)
      ELSE IF a = "x64" /\ p = "win32" THEN Ok(<<Msvc64>>)
      ELSE IF a = "arm64" /\ p = "linux" THEN Ok(<<MuslArm, GnuArm>>)
      ELSE IF a = "arm64" /\ p = "darwin" THEN Ok(<<DarwinArm>>)
      ELSE IF a = "arm64" /\ p = "win32" THEN Ok(<<"aarch64-pc-windows-msvc">>)
      ELSE [ok |-> FALSE, targets |-> <<>>,
            err |-> Msg("failed to determine any valid targets", a, p)]

\* getTargets: [ok, targets, err]; ok = FALSE is the throw.
GetTargets(a, p) ==
  LET Ok(ts) == [ok |-> TRUE, targets |-> ts, err |-> Msg("", "", "")]
  IN  IF a = "x64" /\ p = "linux" THEN Ok(<<Musl64, Gnu64>>)
      ELSE IF a = "x64" /\ p = "darwin" THEN Ok(<<Darwin64>>)
      ELSE IF a = "x64" /\ p = "win32" THEN Ok(<<Msvc64>>)
      ELSE IF a = "arm64" /\ p = "linux" THEN Ok(<<MuslArm, GnuArm>>)
      ELSE IF a = "arm64" /\ p = "darwin" THEN Ok(<<DarwinArm>>)
      ELSE [ok |-> FALSE, targets |-> <<>>,
            err |-> Msg("failed to determine any valid targets", a, p)]

\* ------------------------------------------------------------ getRelease
\* ass.name.includes(target): the target is one token of the file name.
Includes(name, target) == \E i \in 1..Len(name) : name[i] = target

\* rel.assets.find((ass) => targets.some((target) => ass.name.includes(target)))
FindAsset(assets, targets) ==
  FindFirst(assets,
            LAMBDA ass : \E t \in 1..Len(targets) : Includes(ass.name, targets[t]))

\* rel.tag_name.replace(/^v/, "")
StripV(tag) == IF tag.vs > 0 THEN [tag EXCEPT !.vs = @ - 1] ELSE tag

\* The .map() callback: a Release, or undefined (the empty sequence).
MapRelease(rel, targets) ==
  LET asset == FindAsset(rel.assets, targets)
  IN  IF asset # <<>>
      THEN <<[version |-> StripV(rel.tag_name),
              downloadUrl |-> asset[1].browser_download_url]>>
      ELSE <<>>

\* .map(...).filter((rel) => Boolean(rel))
RECURSIVE MapDefined(_, _)
MapDefined(data, targets) ==
  IF data = <<>> THEN <<>>
  ELSE MapRelease(Head(data), targets) \o MapDefined(Tail(data), targets)

\* A slip in the filter: the version specifier is not applied.
KeepAnyRelease(rel, versionSpec) == TRUE

\* .filter((rel) => rel && versionSpec ? semver.satisfies(...) : true)
KeepRelease(rel, versionSpec) ==
  IF versionSpec # "" THEN Satisfies(rel.version, versionSpec) ELSE TRUE

\* The page callback of octokit.paginate: the releases the page contributes.
PageReleases(data, targets, versionSpec) ==
  SelectSeq(MapDefined(data, targets), LAMBDA rel : KeepRelease(rel, versionSpec))

\* A slip in the callback: done() is never called.
DoneNever(releases) == FALSE

\* if (releases.length > 0) { done(); }
Done(releases) == Len(releases) > 0

\* A slip in the final find: the last release collected, not the first.
LastRelease(releases) == IF releases = <<>> THEN <<>> ELSE <<Last(releases)>>

\* releases.find((release) => release != null)
FirstRelease(releases) == FindFirst(releases, LAMBDA rel : TRUE)

\* downloadUrl.endsWith(suffix): the suffix is the file name's last token.
EndsWith(url, suffix) == url.file # <<>> /\ Last(url.file) = suffix

\* ------------------------------------------------------------ tool cache
NoDir == <<>>

\* tool-cache's isExplicitVersion: the spec is itself a full version.
IsExplicit(spec) ==
  LET r == ParseRange(spec)
  IN  ~r.caret /\ Len(r.parts) = 3 /\ \A i \in 1..3 : r.parts[i] # X

ExplicitVersion(spec) ==
  LET r == ParseRange(spec)
  IN  Ver(0, r.parts[1], r.parts[2], r.parts[3], FALSE)

ToolPath(name, version, a) == <<"cache", name, version, a>>

\* The versions of the tool the cache holds with their .complete marker.
CompleteVersions(c, name) ==
  {e.version : e \in {q \in c : q.name = name /\ q.complete}}

\* The entries of a cached directory.
CachedFiles(c, d) ==
  LET hit == {e \in c : e.name = d[2] /\ e.version = d[3]}
  IN  IF hit = {} THEN <<>> ELSE (CHOOSE e \in hit : TRUE).files

\* The cache with the directory for (name, version) written anew.
WithEntry(c, name, version, files, complete) ==
  {e \in c : ~(e.name = name /\ e.version = version)}
    \cup {[name |-> name, version |-> version, files |-> files, complete |-> complete]}

\* A slip in the lookup: the newest cached version, whatever the spec.
FindNewest(c, name, versionSpec, a) ==
  LET local == CompleteVersions(c, name)
      best == CHOOSE v \in local : \A w \in local : w = v \/ VersionGt(v, w)
  IN  IF local # {} THEN ToolPath(name, best, a) ELSE NoDir

\* tc.find(name, versionSpec): the directory of the explicit version, else
\* of the highest cached version satisfying the spec, else "" (NoDir).
Find(c, name, versionSpec, a) ==
  LET local == CompleteVersions(c, name)
      ok == {v \in local : Satisfies(v, versionSpec)}
      best == CHOOSE v \in ok : \A w \in ok : w = v \/ VersionGt(v, w)
  IN  IF IsExplicit(versionSpec)
      THEN IF ExplicitVersion(versionSpec) \in local
           THEN ToolPath(name, ExplicitVersion(versionSpec), a)
           ELSE NoDir
      ELSE IF ok # {} THEN ToolPath(name, best, a) ELSE NoDir

\* path.basename(path.dirname(dir))
VersionOfDir(d) == d[Len(d) - 1]

\* ------------------------------------------------------------ directories
File(name, x) == [name |-> name, kind |-> "file", x |-> x, sub |-> <<>>]

Dir(name, sub) == [name |-> name, kind |-> "dir", x |-> TRUE, sub |-> sub]

\* fs.readdir(path) below a directory whose entries are `files`.
RECURSIVE ReadDir(_, _)
ReadDir(files, path) ==
  IF path = <<>> THEN files
  ELSE LET hit == SelectSeq(files, LAMBDA e : e.name = Head(path))
       IN  IF hit = <<>> THEN <<>> ELSE ReadDir(hit[1].sub, Tail(path))

\* A slip in the descent: it goes on through a second single directory.
NormalizeTwice(files) ==
  IF Len(files) = 1 /\ files[1].kind = "dir"
  THEN IF Len(files[1].sub) = 1 /\ files[1].sub[1].kind = "dir"
       THEN <<files[1].name, files[1].sub[1].name>>
       ELSE <<files[1].name>>
  ELSE <<>>

\* "handle the case where there is a single directory extracted": the path
\* below the extraction root that is handed to tc.cacheDir.
Normalize(files) ==
  IF Len(files) = 1 /\ files[1].kind = "dir" THEN <<files[1].name>> ELSE <<>>

ToLower(s) ==
  CASE s = "mdBook" -> "mdbook"
    [] OTHER -> s

\* findBin: the first entry equal to the tool name up to case, else the name.
FindBin(files, name) ==
  LET hit == FindFirst(files, LAMBDA f : ToLower(f.name) = ToLower(name))
  IN  IF hit # <<>> THEN hit[1].name ELSE name

\* path.join(dir, bin ? bin : await findBin())
BinaryName(t, files) == IF t.bin # "" THEN t.bin ELSE FindBin(files, t.name)

Exists(files, name) == \E i \in 1..Len(files) : files[i].name = name

\* fs.access(binary, X_OK) resolves.
Executable(files, name) ==
  \E i \in 1..Len(files) : files[i].name = name /\ files[i].x

\* A slip in the repair: the mode is left as it was.
ChmodNothing(files, name) == files

\* fs.chmod(binary, "755") on an existing entry.
Chmod755(files, name) ==
  [i \in 1..Len(files) |->
     IF files[i].name = name THEN [files[i] EXCEPT !.x = TRUE] ELSE files[i]]

\* ------------------------------------------------------------------ main
\* A slip in main: two version constraints are not told apart.
ParseInputsLax(in) ==
  LET segs == Split2(in.repo, "@")
      repo == IF segs = <<>> THEN <<>> ELSE segs[1]
      version == Nth(segs, 2)
      names == Split2(repo, "/")
      Fail(m) == [ok |-> FALSE, msg |-> Msg(m, "", ""),
                  tool |-> [owner |-> "", name |-> "", versionSpec |-> "", bin |-> ""]]
  IN  IF in.repo # <<>> /\ (in.owner # "" \/ in.name # "")
      THEN Fail("When 'repo' is supplied, 'owner' and 'name' must not be provided")
      ELSE IF in.repo = <<>> /\ (in.owner = "" \/ in.name = "")
      THEN Fail("Both 'owner' and 'name' must be supplied when 'repo' is not provided")
      ELSE IF in.repo # <<>>
      THEN [ok |-> TRUE, msg |-> Msg("", "", ""),
            tool |-> [owner |-> Nth(names, 1), name |-> Nth(names, 2),
                      versionSpec |-> IF version # "" THEN version ELSE in.version,
                      bin |-> ""]]
      ELSE [ok |-> TRUE, msg |-> Msg("", "", ""),
            tool |-> [owner |-> in.owner, name |-> in.name,
                      versionSpec |-> in.version, bin |-> ""]]

\* main's input checks and the parse of `repo`: [ok, msg, tool].
ParseInputs(in) ==
  LET segs == Split2(in.repo, "@")
      repo == IF segs = <<>> THEN <<>> ELSE segs[1]
      version == Nth(segs, 2)
      names == Split2(repo, "/")
      Fail(m) == [ok |-> FALSE, msg |-> Msg(m, "", ""),
                  tool |-> [owner |-> "", name |-> "", versionSpec |-> "", bin |-> ""]]
  IN  IF in.repo # <<>> /\ (in.owner # "" \/ in.name # "")
      THEN Fail("When 'repo' is supplied, 'owner' and 'name' must not be provided")
      ELSE IF in.repo = <<>> /\ (in.owner = "" \/ in.name = "")
      THEN Fail("Both 'owner' and 'name' must be supplied when 'repo' is not provided")
      ELSE IF in.repo # <<>> /\ version # "" /\ in.version # ""
      THEN Fail("Both 'version' and 'repo' have a version specified, only one is allowed")
      ELSE IF in.repo # <<>>
      THEN [ok |-> TRUE, msg |-> Msg("", "", ""),
            tool |-> [owner |-> Nth(names, 1), name |-> Nth(names, 2),
                      versionSpec |-> IF version # "" THEN version ELSE in.version,
                      bin |-> ""]]
      ELSE [ok |-> TRUE, msg |-> Msg("", "", ""),
            tool |-> [owner |-> in.owner, name |-> in.name,
                      versionSpec |-> in.version, bin |-> ""]]

\* ------------------------------------------------------------------ state
VARIABLES
  arch,          \* process.arch
  platform,      \* process.platform
  cache,         \* the tool cache: a set of [name, version, files, complete]
  staging,       \* /tmp/extractions-setup-crate-binaries: [exists, files]
  runs,          \* invocations started so far in this job
  pc,            \* where the current invocation stands
  caller,        \* "main" (the action) or "lib" (a direct call of the library)
  inputs,        \* core.getInput: [repo, owner, name, version]
  tool,          \* the Tool handed to checkOrInstallTool
  dir,           \* checkOrInstallTool's dir
  targets,       \* getRelease's targets
  pages,         \* the response pages the paginate call has received
  hasNext,       \* whether the last response carried a next-page link
  results,       \* the releases octokit.paginate has collected
  release,       \* the Release getRelease resolved: <<>> or <<[version, downloadUrl]>>
  extractRoot,   \* what extractDir is below: "", "temp" or "staging"
  extractPath,   \* extractDir's path below that root
  tempFiles,     \* the entries of the fresh directory the archive went to
  renamePending, \* fs.rename(artifact, newPath) is issued and not yet done
  thrown,        \* the value in flight to a catch: [is, msg]
  outcome,       \* what main told @actions/core: [failed, paths, infos]
  result,        \* the InstalledTool checkOrInstallTool returned (or <<>>)
  ops,           \* external calls of the current invocation, counted
  prev,          \* the previous invocation: [tool, hit, result]
  probe          \* a call of semver.satisfies on its own: [version, range, out]

vars == <<arch, platform, cache, staging, runs, pc, caller, inputs, tool, dir,
          targets, pages, hasNext, results, release, extractRoot, extractPath,
          tempFiles, renamePending, thrown, outcome, result, ops, prev, probe>>

env == <<arch, platform>>

\* getRelease's and the extraction's locals.
locate == <<targets, pages, hasNext, results, release>>

extraction == <<extractRoot, extractPath, tempFiles>>

\* ----------------------------------------------------------- input sets
Owner == "rust-lang"
Name == "mdBook"

Platforms == {<<"x64", "linux">>, <<"x64", "win32">>, <<"arm64", "win32">>}

RepoInputs ==
  { <<>>, <<Owner, "/", Name>>, <<Owner, "/", Name, "@", "0.10">>,
    <<Owner, "/", Name, "@">>, <<Name>> }

Inputs ==
  [repo : RepoInputs, owner : {"", Owner}, name : {"", Name}, version : {"", "0.10"}]

Tools ==
  [owner : {Owner}, name : {Name}, versionSpec : {"", "0.10.3"},
   bin : {"", "mdbook-cli"}]

Tags == {Ver(1, 0, 10, 3, FALSE), Ver(1, 0, 10, 4, FALSE), Ver(1, 0, 11, 0, TRUE)}

AssetNames ==
  { <<>>,
    <<<<"mdbook", Gnu64, ".tgz">>, <<"mdbook", Musl64, ".tar.gz">>>>,
    <<<<"mdbook", Musl64>>, <<"mdbook", Gnu64, ".tgz">>>>,
    <<<<"SHA256SUMS">>, <<"mdbook", Msvc64, ".zip">>>> }

\* A release of the listing: each asset's download URL names its release
\* and its file.
Rel(tag, names) ==
  [tag_name |-> tag,
   assets |-> [i \in 1..Len(names) |->
                 [name |-> names[i],
                  browser_download_url |-> [tag |-> tag, file |-> names[i]]]]]

Releases == {Rel(tag, names) : tag \in Tags, names \in AssetNames}

\* What an archive unpacks to.
Layouts ==
  { <<>>,
    <<Dir("mdBook-x86_64", <<Dir("bin", <<File("mdbook", TRUE)>>)>>)>> }
  \cup { <<File("mdbook", x)>> : x \in BOOLEAN }
  \cup { <<File("mdbook", x), File("mdbook-cli", FALSE)>> : x \in BOOLEAN }
  \cup { <<Dir("mdBook-x86_64", <<File("mdbook", x), File("README", FALSE)>>)>> :
           x \in BOOLEAN }

\* A value a failing external call throws: an Error, or something else.
Throwables == {"Error", "other"}

NoThrow == [is |-> "none", msg |-> Msg("", "", "")]

Thrown(is, msg) == [is |-> is, msg |-> IF is = "Error" THEN msg ELSE Msg("", "", "")]

NoInputs == [repo |-> <<>>, owner |-> "", name |-> "", version |-> ""]

NoTool == [owner |-> "", name |-> "", versionSpec |-> "", bin |-> ""]

NoOutcome == [failed |-> <<>>, paths |-> <<>>, infos |-> <<>>]

NoOps ==
  [find |-> 0, list |-> 0, download |-> 0, extract |-> 0, mkdir |-> 0,
   cacheDir |-> 0, access |-> 0, chmod |-> 0]

NoPrev == [tool |-> NoTool, hit |-> FALSE, result |-> <<>>]

Count(op) == [ops EXCEPT ![op] = @ + 1]

NoProbe ==
  [version |-> Ver(0, 0, 0, 0, FALSE), range |-> [caret |-> FALSE, parts |-> <<>>],
   out |-> "unasked"]

\* ------------------------------------------------------------------- Init
\* Nothing is cached, nothing has run.
Blank ==
  /\ cache = {}
  /\ runs = 0
  /\ caller = ""
  /\ inputs = NoInputs
  /\ tool = NoTool
  /\ dir = NoDir
  /\ targets = <<>>
  /\ pages = <<>>
  /\ hasNext = FALSE
  /\ results = <<>>
  /\ release = <<>>
  /\ extractRoot = ""
  /\ extractPath = <<>>
  /\ tempFiles = <<>>
  /\ renamePending = FALSE
  /\ thrown = NoThrow
  /\ outcome = NoOutcome
  /\ result = <<>>
  /\ ops = NoOps
  /\ prev = NoPrev

Init ==
  /\ \E p \in Platforms : arch = p[1] /\ platform = p[2]
  /\ staging \in [exists : BOOLEAN, files : {<<>>}]
  /\ pc = "idle"
  /\ probe = NoProbe
  /\ Blank

\* A new invocation starts with fresh locals; the cache and /tmp persist.
Fresh ==
  /\ pc \in {"idle", "done"}
  /\ ~renamePending
  /\ runs' = runs + 1
  /\ dir' = NoDir
  /\ targets' = <<>>
  /\ pages' = <<>>
  /\ hasNext' = FALSE
  /\ results' = <<>>
  /\ release' = <<>>
  /\ extractRoot' = ""
  /\ extractPath' = <<>>
  /\ tempFiles' = <<>>
  /\ thrown' = NoThrow
  /\ result' = <<>>
  /\ ops' = NoOps
  /\ UNCHANGED <<env, cache, staging, renamePending, probe>>

\* What the invocation that just ended leaves for the next to compare with.
Remember ==
  IF pc = "done"
  THEN [tool |-> tool, hit |-> ops.find = 1 /\ ops.list = 0 /\ result # <<>>,
        result |-> result]
  ELSE NoPrev

\* main, lines 7-35: read the inputs, reject conflicting ones, parse `repo`.
MainStart(in) ==
  LET parsed == ParseInputs(in)
  IN  /\ Fresh
      /\ caller' = "main"
      /\ inputs' = in
      /\ prev' = Remember
      /\ IF parsed.ok
         THEN /\ tool' = parsed.tool
              /\ outcome' = NoOutcome
              /\ pc' = "find"
         ELSE /\ tool' = NoTool
              /\ outcome' = [NoOutcome EXCEPT !.failed = <<parsed.msg>>]
              /\ pc' = "done"

\* A direct call of the exported checkOrInstallTool.
LibCall(t) ==
  /\ Fresh
  /\ caller' = "lib"
  /\ inputs' = NoInputs
  /\ prev' = Remember
  /\ tool' = t
  /\ outcome' = NoOutcome
  /\ pc' = "find"

\* A slip in the propagation: the error is caught and the pipeline retried.
ThrowRetried(t) ==
  /\ thrown' = t
  /\ pc' = "find"

\* The step at pc throws `t`.
Throw(t) ==
  /\ thrown' = t
  /\ pc' = "caught"

\* checkOrInstallTool, line 177: tc.find(name, versionSpec || "*").
CacheCheck ==
  /\ pc = "find"
  /\ ops' = Count("find")
  /\ IF tool.name = ""
     THEN /\ Throw(Thrown("Error", Msg("toolName parameter is required", "", "")))
          /\ dir' = dir
     ELSE /\ dir' = Find(cache, tool.name,
                         IF tool.versionSpec # "" THEN tool.versionSpec ELSE "*", arch)
          /\ pc' = IF dir' # NoDir THEN "return" ELSE "targets"
          /\ thrown' = thrown
  /\ UNCHANGED <<env, cache, staging, runs, caller, inputs, tool, locate, extraction,
                 renamePending, outcome, result, prev, probe>>

\* getRelease, line 94: getTargets().
ResolveTargets ==
  LET got == GetTargets(arch, platform)
  IN  /\ pc = "targets"
      /\ IF got.ok
         THEN /\ targets' = got.targets
              /\ pc' = "page"
              /\ thrown' = thrown
         ELSE /\ targets' = targets
              /\ Throw(Thrown("Error", got.err))
      /\ UNCHANGED <<env, cache, staging, runs, caller, inputs, tool, dir, pages,
                     hasNext, results, release, extraction, renamePending, outcome,
                     result, ops, prev, probe>>

Served == Len(pages)

ReleasesServed ==
  LET RECURSIVE Sum(_)
      Sum(ps) == IF ps = <<>> THEN 0 ELSE Len(Head(ps)) + Sum(Tail(ps))
  IN  Sum(pages)

\* The pages a listing may serve next: between 1 and the releases left,
\* or an empty first page for a repository without releases.
PagesLeft ==
  LET left == MaxReleases - ReleasesServed
  IN  UNION {[1..n -> Releases] : n \in 1..left}
        \cup (IF pages = <<>> THEN {<<>>} ELSE {})

\* octokit.paginate requests the next page and hands it to the callback
\* (lines 101-124); done() or a response without a next link ends it.
FetchPage(data, more) ==
  LET kept == PageReleases(data, targets, tool.versionSpec)
  IN  /\ pc = "page"
      /\ more => Served + 1 < MaxPages /\ ReleasesServed + Len(data) < MaxReleases
      /\ (data = <<>>) => ~more
      /\ ops' = Count("list")
      /\ pages' = Append(pages, data)
      /\ hasNext' = more
      /\ results' = results \o kept
      /\ pc' = IF Done(kept) \/ ~more THEN "then" ELSE "page"
      /\ UNCHANGED <<env, cache, staging, runs, caller, inputs, tool, dir, targets,
                     release, extraction, renamePending, thrown, outcome, result, prev, probe>>

\* The request of a page fails.
FetchFails(t) ==
  /\ pc = "page"
  /\ ops' = Count("list")
  /\ Throw(Thrown(t, Msg("request failed", "", "")))
  /\ UNCHANGED <<env, cache, staging, runs, caller, inputs, tool, dir, locate,
                 extraction, renamePending, outcome, result, prev, probe>>

\* getRelease, lines 126-134: the first release collected, or the throw.
PickRelease ==
  LET first == FirstRelease(results)
  IN  /\ pc = "then"
      /\ IF first = <<>>
         THEN /\ release' = release
              /\ Throw(Thrown("Error", Msg("no release for", tool.name, tool.versionSpec)))
         ELSE /\ release' = first
              /\ pc' = "download"
              /\ thrown' = thrown
      /\ UNCHANGED <<env, cache, staging, runs, caller, inputs, tool, dir, targets,
                     pages, hasNext, results, extraction, renamePending, outcome,
                     result, ops, prev, probe>>

\* getRelease has returned: of its frame only the Release is left.
Forget ==
  /\ pages' = <<>>
  /\ hasNext' = FALSE
  /\ results' = <<>>
  /\ UNCHANGED <<targets, release>>

\* checkOrInstallTool, line 184: tc.downloadTool(downloadUrl).
Download ==
  /\ pc = "download"
  /\ ops' = Count("download")
  /\ pc' = "extract"
  /\ Forget
  /\ UNCHANGED <<env, cache, staging, runs, caller, inputs, tool, dir,
                 extraction, renamePending, thrown, outcome, result, prev, probe>>

DownloadFails(t) ==
  /\ pc = "download"
  /\ ops' = Count("download")
  /\ Throw(Thrown(t, Msg("download failed", "", "")))
  /\ Forget
  /\ UNCHANGED <<env, cache, staging, runs, caller, inputs, tool, dir,
                 extraction, renamePending, outcome, result, prev, probe>>

IsArchive(url) ==
  EndsWith(url, ".zip") \/ EndsWith(url, ".tar.gz") \/ EndsWith(url, ".tgz")

\* Lines 188-193: tc.extractZip / tc.extractTar into a fresh directory.
ExtractArchive(layout) ==
  /\ pc = "extract"
  /\ IsArchive(release[1].downloadUrl)
  /\ ops' = Count("extract")
  /\ extractRoot' = "temp"
  /\ extractPath' = <<>>
  /\ tempFiles' = layout
  /\ pc' = "normalize"
  /\ UNCHANGED <<env, cache, staging, runs, caller, inputs, tool, dir, locate,
                 renamePending, thrown, outcome, result, prev, probe>>

ExtractFails(t) ==
  /\ pc = "extract"
  /\ IsArchive(release[1].downloadUrl)
  /\ ops' = Count("extract")
  /\ Throw(Thrown(t, Msg("extraction failed", "", "")))
  /\ UNCHANGED <<env, cache, staging, runs, caller, inputs, tool, dir, locate,
                 extraction, renamePending, outcome, result, prev, probe>>

\* fs.mkdir(path, { recursive: true }) resolves to the first directory it
\* created, and to undefined when the directory was there already.
MkdirRecursive(st) == IF st.exists THEN "" ELSE "staging"

\* Lines 194-207: the naked binary.  fs.rename is issued and not awaited.
StageBinary ==
  LET made == MkdirRecursive(staging)
  IN  /\ pc = "extract"
      /\ ~IsArchive(release[1].downloadUrl)
      /\ ops' = Count("mkdir")
      /\ IF made = ""
         THEN /\ Throw(Thrown("Error",
                   Msg("Failed to create temporary directory for binary extraction", "", "")))
              /\ UNCHANGED <<staging, extraction, renamePending>>
         ELSE /\ staging' = [exists |-> TRUE, files |-> <<>>]
              /\ extractRoot' = made
              /\ extractPath' = <<>>
              /\ tempFiles' = tempFiles
              /\ renamePending' = TRUE
              /\ pc' = "normalize"
              /\ thrown' = thrown
      /\ UNCHANGED <<env, cache, runs, caller, inputs, tool, dir, locate, outcome,
                     result, prev, probe>>

\* The pending fs.rename(artifact, path.join(extractDir, name)) lands.
RenameCompletes ==
  /\ renamePending
  /\ renamePending' = FALSE
  /\ staging' = [staging EXCEPT !.files = Append(@, File(tool.name, FALSE))]
  /\ UNCHANGED <<env, cache, runs, pc, caller, inputs, tool, dir, locate, extraction,
                 thrown, outcome, result, ops, prev, probe>>

\* The entries below the extraction root.
RootFiles == IF extractRoot = "staging" THEN staging.files ELSE tempFiles

\* Lines 209-216: descend into a single extracted directory.
NormalizeDir ==
  /\ pc = "normalize"
  /\ extractPath' = Normalize(ReadDir(RootFiles, extractPath))
  /\ pc' = "cache"
  /\ UNCHANGED <<env, cache, staging, runs, caller, inputs, tool, dir, locate,
                 extractRoot, tempFiles, renamePending, thrown, outcome, result, ops,
                 prev, probe>>

NormalizeFails(t) ==
  /\ pc = "normalize"
  /\ Throw(Thrown(t, Msg("readdir failed", "", "")))
  /\ UNCHANGED <<env, cache, staging, runs, caller, inputs, tool, dir, locate,
                 extraction, renamePending, outcome, result, ops, prev, probe>>

\* Line 218: tc.cacheDir(extractDir, name, version) copies the directory to
\* <cache>/<name>/<semver.clean(version)>/<arch> and marks it complete.
CacheDir ==
  LET version == Clean(release[1].version)
  IN  /\ pc = "cache"
      /\ ops' = Count("cacheDir")
      /\ cache' = WithEntry(cache, tool.name, version,
                            ReadDir(RootFiles, extractPath), TRUE)
      /\ dir' = ToolPath(tool.name, version, arch)
      /\ pc' = "perm"
      /\ UNCHANGED <<env, staging, runs, caller, inputs, tool, locate, extraction,
                     renamePending, thrown, outcome, result, prev, probe>>

\* The copy fails: the destination was emptied first and is left unmarked.
CacheDirFails(t) ==
  /\ pc = "cache"
  /\ ops' = Count("cacheDir")
  /\ cache' = WithEntry(cache, tool.name, Clean(release[1].version), <<>>, FALSE)
  /\ Throw(Thrown(t, Msg("cacheDir failed", "", "")))
  /\ UNCHANGED <<env, staging, runs, caller, inputs, tool, dir, locate, extraction,
                 renamePending, outcome, result, prev, probe>>

\* handleBadBinaryPermissions (lines 137-160).
FixPermissions ==
  LET files == CachedFiles(cache, dir)
      binary == BinaryName(tool, files)
  IN  /\ pc = "perm"
      /\ IF platform # "win32"
         THEN IF Executable(files, binary)
              THEN /\ ops' = Count("access")
                   /\ pc' = "return"
                   /\ UNCHANGED <<cache, thrown>>
              ELSE /\ ops' = [ops EXCEPT !.access = @ + 1, !.chmod = @ + 1]
                   /\ IF Exists(files, binary)
                      THEN /\ cache' = WithEntry(cache, dir[2], dir[3],
                                                 Chmod755(files, binary), TRUE)
                           /\ pc' = "return"
                           /\ thrown' = thrown
                      ELSE /\ cache' = cache
                           /\ Throw(Thrown("Error", Msg("ENOENT", "chmod", binary)))
         ELSE /\ pc' = "return"
              /\ UNCHANGED <<cache, thrown, ops>>
      /\ UNCHANGED <<env, staging, runs, caller, inputs, tool, dir, locate, extraction,
                     renamePending, outcome, result, prev, probe>>

\* findBin's fs.readdir rejects.
ReaddirFails(t) ==
  /\ pc = "perm"
  /\ platform # "win32"
  /\ tool.bin = ""
  /\ Throw(Thrown(t, Msg("readdir failed", "", "")))
  /\ UNCHANGED <<env, cache, staging, runs, caller, inputs, tool, dir, locate,
                 extraction, renamePending, outcome, result, ops, prev, probe>>

\* fs.access rejects and then fs.chmod rejects too.
ChmodFails(t) ==
  LET files == CachedFiles(cache, dir)
  IN  /\ pc = "perm"
      /\ platform # "win32"
      /\ ~Executable(files, BinaryName(tool, files))
      /\ ops' = [ops EXCEPT !.access = @ + 1, !.chmod = @ + 1]
      /\ Throw(Thrown(t, Msg("EPERM", "chmod", "")))
      /\ UNCHANGED <<env, cache, staging, runs, caller, inputs, tool, dir, locate,
                     extraction, renamePending, outcome, result, prev, probe>>

\* Lines 225-227: the version is read off the cache path.
Installed(t, d) ==
  [version |-> VersionOfDir(d), dir |-> d, owner |-> t.owner, name |-> t.name,
   versionSpec |-> t.versionSpec, bin |-> t.bin]

Return ==
  /\ pc = "return"
  /\ result' = <<Installed(tool, dir)>>
  /\ pc' = "returned"
  /\ UNCHANGED <<env, cache, staging, runs, caller, inputs, tool, dir, locate,
                 extraction, renamePending, thrown, outcome, ops, prev, probe>>

\* main, lines 41-42: core.addPath, core.info.
MainFinish ==
  /\ pc = "returned"
  /\ caller = "main"
  /\ outcome' = [outcome EXCEPT !.paths = Append(@, result[1].dir),
                                !.infos = Append(@, <<result[1].name, result[1].version>>)]
  /\ pc' = "done"
  /\ UNCHANGED <<env, cache, staging, runs, caller, inputs, tool, dir, locate,
                 extraction, renamePending, thrown, result, ops, prev, probe>>

\* What main's catch reports for a thrown value (lines 43-47).
Reported(t) == IF t.is = "Error" THEN <<t.msg>> ELSE <<>>

MainCatch ==
  /\ pc = "caught"
  /\ caller = "main"
  /\ outcome' = [outcome EXCEPT !.failed = @ \o Reported(thrown)]
  /\ pc' = "done"
  /\ UNCHANGED <<env, cache, staging, runs, caller, inputs, tool, dir, locate,
                 extraction, renamePending, thrown, result, ops, prev, probe>>

\* The library's caller gets the InstalledTool, or the rejection.
LibSettles ==
  /\ pc \in {"returned", "caught"}
  /\ caller = "lib"
  /\ pc' = "done"
  /\ UNCHANGED <<env, cache, staging, runs, caller, inputs, tool, dir, locate,
                 extraction, renamePending, thrown, outcome, result, ops, prev, probe>>

Next ==
  \/ runs = 0 /\ \E in \in Inputs : MainStart(in)
  \/ runs = 0 /\ \E t \in Tools : LibCall(t)
  \/ CacheCheck
  \/ ResolveTargets
  \/ \E data \in PagesLeft, more \in BOOLEAN : FetchPage(data, more)
  \/ \E t \in Throwables : FetchFails(t)
  \/ PickRelease
  \/ Download
  \/ \E t \in Throwables : DownloadFails(t)
  \/ \E layout \in Layouts : ExtractArchive(layout)
  \/ \E t \in Throwables : ExtractFails(t)
  \/ StageBinary
  \/ RenameCompletes
  \/ NormalizeDir
  \/ \E t \in Throwables : NormalizeFails(t)
  \/ CacheDir
  \/ \E t \in Throwables : CacheDirFails(t)
  \/ FixPermissions
  \/ \E t \in Throwables : ReaddirFails(t)
  \/ \E t \in Throwables : ChmodFails(t)
  \/ Return
  \/ MainFinish
  \/ MainCatch
  \/ LibSettles

Spec == Init /\ [][Next]_vars

\* A job of several invocations of the library, one after the other, over
\* the same tool cache and /tmp; each listing is one page of one release.
\* A second owner with a repository of the same name.
Fork == "mdbook-fork"

JobTools ==
  [owner : {Owner, Fork}, name : {Name}, versionSpec : {"", "0.10", "0.10.3"},
   bin : {""}]

\* The last one is tagged "vv0.10.5": one "v" is left after the strip.
JobReleases ==
  { Rel(Ver(1, 0, 10, 3, FALSE), <<<<"mdbook", Musl64, ".tar.gz">>>>),
    Rel(Ver(1, 0, 11, 0, TRUE), <<<<"mdbook", Musl64, ".tar.gz">>>>),
    Rel(Ver(1, 0, 10, 4, FALSE), <<<<"mdbook", Gnu64>>>>),
    Rel(Ver(2, 0, 10, 5, FALSE), <<<<"mdbook", Musl64, ".tgz">>>>) }

JobLayouts == { <<File("mdbook", x)>> : x \in BOOLEAN }

NextJob ==
  \/ runs < MaxRuns /\ \E t \in JobTools : LibCall(t)
  \/ CacheCheck
  \/ ResolveTargets
  \/ \E r \in JobReleases : FetchPage(<<r>>, FALSE)
  \/ \E t \in Throwables : FetchFails(t)
  \/ PickRelease
  \/ Download
  \/ \E t \in Throwables : DownloadFails(t)
  \/ \E layout \in JobLayouts : ExtractArchive(layout)
  \/ \E t \in Throwables : ExtractFails(t)
  \/ StageBinary
  \/ RenameCompletes
  \/ NormalizeDir
  \/ \E t \in Throwables : NormalizeFails(t)
  \/ CacheDir
  \/ \E t \in Throwables : CacheDirFails(t)
  \/ FixPermissions
  \/ \E t \in Throwables : ReaddirFails(t)
  \/ \E t \in Throwables : ChmodFails(t)
  \/ Return
  \/ LibSettles

SpecJob == Init /\ [][NextJob]_vars

\* getTargets and semver.satisfies on their own, over all their inputs.
Archs == {"x64", "arm64", "ia32"}

OSes == {"linux", "darwin", "win32", "freebsd"}

ProbeVersions ==
  {Ver(0, M, m, p, pre) : M \in {0, 1}, m \in {0, 1, 9, 10, 11}, p \in {0, 1, 3, 9},
                          pre \in BOOLEAN}

ProbeRanges ==
  [caret : BOOLEAN,
   parts : {<<X>>}
           \cup {<<M, m>> : M \in {0, 1}, m \in {0, 10}}
           \cup {<<M, m, p>> : M \in {0, 1}, m \in {0, 10}, p \in {X, 0, 3}}]

InitPure ==
  /\ staging = [exists |-> FALSE, files |-> <<>>]
  /\ Blank
  /\ \/ /\ arch \in Archs
        /\ platform \in OSes
        /\ pc = "targets"
        /\ probe = NoProbe
     \/ /\ arch = "x64"
        /\ platform = "linux"
        /\ pc = "idle"
        /\ probe \in [version : ProbeVersions, range : ProbeRanges, out : {"unasked"}]

\* semver.satisfies(rel.version, versionSpec), line 117.
ApplySatisfies ==
  /\ probe.out = "unasked"
  /\ probe.range.parts # <<>>
  /\ probe' = [probe EXCEPT
                 !.out = IF SatisfiesRange(probe.version, probe.range) THEN "yes" ELSE "no"]
  /\ UNCHANGED <<env, cache, staging, runs, pc, caller, inputs, tool, dir, locate,
                 extraction, renamePending, thrown, outcome, result, ops, prev>>

NextPure == ResolveTargets \/ ApplySatisfies

SpecPure == InitPure /\ [][NextPure]_vars

\* ================================================================ claims
\* ---- C4 (SpecPure) -------------------------------------------------------
\* The README's table of targets.
SupportedPairs ==
  { <<"x64", "linux">>, <<"x64", "darwin">>, <<"x64", "win32">>,
    <<"arm64", "linux">>, <<"arm64", "darwin">> }

DocumentedTargets(pair) ==
  CASE pair = <<"x64", "linux">> ->
         <<"x86_64-unknown-linux-musl", "x86_64-unknown-linux-gnu">>
    [] pair = <<"x64", "darwin">> -> <<"x86_64-apple-darwin">>
    [] pair = <<"x64", "win32">> -> <<"x86_64-pc-windows-msvc">>
    [] pair = <<"arm64", "linux">> ->
         <<"aarch64-unknown-linux-musl", "aarch64-unknown-linux-gnu">>
    [] pair = <<"arm64", "darwin">> -> <<"aarch64-apple-darwin">>
    [] OTHER -> <<>>

\* C4: once getTargets has run, a supported (arch, platform) pair has got
\* exactly its documented list in the documented order, and every other
\* pair (arm64/win32 among them) has got the unsupported-platform Error
\* and no list.
C4_TargetsTable ==
  /\ pc = "page" =>
       /\ <<arch, platform>> \in SupportedPairs
       /\ targets = DocumentedTargets(<<arch, platform>>)
       /\ targets # <<>>
  /\ pc = "caught" =>
       /\ <<arch, platform>> \notin SupportedPairs
       /\ targets = <<>>
       /\ thrown = [is |-> "Error",
                    msg |-> <<"failed to determine any valid targets", arch, platform>>]

C4_Witness ==
  pc = "caught" /\ arch = "arm64" /\ platform = "win32" /\ thrown.is = "Error"

\* ---- C10 (SpecPure) ------------------------------------------------------
\* semver precedence between a version and a release triple: a prerelease
\* of a triple comes before the triple itself.
AtLeast(v, lo) == TripleLess(lo, Triple(v)) \/ (lo = Triple(v) /\ ~v.pre)

Below(v, hi) == TripleLess(Triple(v), hi) \/ (Triple(v) = hi /\ v.pre)

\* The shapes of constraint the claim names.
IsMinorRange(r) ==
  \/ ~r.caret /\ Len(r.parts) = 2 /\ r.parts[1] # X /\ r.parts[2] # X
  \/ ~r.caret /\ Len(r.parts) = 3 /\ r.parts[1] # X /\ r.parts[2] # X /\ r.parts[3] = X

IsCaretZero(r) ==
  r.caret /\ Len(r.parts) = 3 /\ r.parts[1] = 0 /\ r.parts[2] # X /\ r.parts[3] = 0

IsFull(r) == ~r.caret /\ Len(r.parts) = 3 /\ \A i \in 1..3 : r.parts[i] # X

InMinor(v, r) ==
  /\ AtLeast(v, <<r.parts[1], r.parts[2], 0>>)
  /\ Below(v, <<r.parts[1], r.parts[2] + 1, 0>>)

Accepted == probe.out = "yes"

\* C10 as stated: M.m, M.m.x and ^0.m.0 accept exactly the versions v with
\* M.m.0 <= v < M.(m+1).0, and M.m.p accepts exactly M.m.p.
C10_AsStated ==
  probe.out # "unasked" =>
    /\ (IsMinorRange(probe.range) \/ IsCaretZero(probe.range)) =>
         (Accepted <=> InMinor(probe.version, probe.range))
    /\ IsFull(probe.range) =>
         (Accepted <=> (Triple(probe.version) = probe.range.parts /\ ~probe.version.pre))

\* C10, amended: for versions without a prerelease tag, M.m and M.m.x
\* accept exactly M.m.0 <= v < M.(m+1).0, ^0.m.0 does so for m >= 1 while
\* ^0.0.0 accepts 0.0.0 alone, and M.m.p accepts exactly M.m.p; a version
\* with a prerelease tag is accepted by none of these constraints.  So 0.10
\* keeps 0.10.3 and drops 0.11.0 and 0.9.9.
C10_XRange ==
  probe.out # "unasked" =>
    LET v == probe.version
        r == probe.range
    IN  /\ (IsMinorRange(r) \/ IsCaretZero(r) \/ IsFull(r)) /\ v.pre => ~Accepted
        /\ IsMinorRange(r) /\ ~v.pre => (Accepted <=> InMinor(v, r))
        /\ IsCaretZero(r) /\ r.parts[2] >= 1 /\ ~v.pre => (Accepted <=> InMinor(v, r))
        /\ IsCaretZero(r) /\ r.parts[2] = 0 /\ ~v.pre =>
             (Accepted <=> Triple(v) = <<0, 0, 0>>)
        /\ IsFull(r) /\ ~v.pre => (Accepted <=> Triple(v) = r.parts)
        /\ r = [caret |-> FALSE, parts |-> <<0, 10>>] =>
             /\ v = Ver(0, 0, 10, 3, FALSE) => Accepted
             /\ v \in {Ver(0, 0, 11, 0, FALSE), Ver(0, 0, 9, 9, FALSE)} => ~Accepted

C10_Witness ==
  /\ probe.out = "yes"
  /\ probe.range = [caret |-> FALSE, parts |-> <<0, 10>>]
  /\ probe.version = Ver(0, 0, 10, 3, FALSE)

\* ---- the release listing, as the claims speak of it ----------------------
\* The releases served so far, newest first, over all pages.
Listing ==
  LET RECURSIVE Flat(_)
      Flat(ps) == IF ps = <<>> THEN <<>> ELSE Head(ps) \o Flat(Tail(ps))
  IN  Flat(pages)

\* The asset's file name contains one of the accepted targets.
MatchesTarget(asset) ==
  \E t \in 1..Len(targets), k \in 1..Len(asset.name) : asset.name[k] = targets[t]

\* The release tag with one leading "v" removed.
TagVersion(rel) ==
  IF rel.tag_name.vs >= 1 THEN [rel.tag_name EXCEPT !.vs = @ - 1] ELSE rel.tag_name

\* The release has an asset for an accepted target and meets the constraint.
Qualifies(rel) ==
  /\ \E a \in 1..Len(rel.assets) : MatchesTarget(rel.assets[a])
  /\ tool.versionSpec = "" \/ Satisfies(TagVersion(rel), tool.versionSpec)

\* ---- C1 (Spec) -----------------------------------------------------------
\* C1: the Release getRelease returns comes from the first release of the
\* listing (newest first, over all pages) that qualifies: its version is
\* that release's tag without the "v", its URL one of that release's
\* matching assets; no release listed before it qualifies.
C1_NewestQualifying ==
  pc = "download" =>
    \E i \in 1..Len(Listing) :
      /\ Qualifies(Listing[i])
      /\ \A j \in 1..(i - 1) : ~Qualifies(Listing[j])
      /\ release[1].version = TagVersion(Listing[i])
      /\ \E a \in 1..Len(Listing[i].assets) :
           /\ MatchesTarget(Listing[i].assets[a])
           /\ release[1].downloadUrl = Listing[i].assets[a].browser_download_url

\* Two qualifying releases, the later-listed one of the higher version, and
\* the earlier-listed one returned.
C1_Witness ==
  /\ pc = "download"
  /\ tool.versionSpec # ""
  /\ Len(Listing) = 2
  /\ Qualifies(Listing[1])
  /\ Qualifies(Listing[2])
  /\ VersionGt(TagVersion(Listing[2]), TagVersion(Listing[1]))
  /\ release[1].version = TagVersion(Listing[1])

\* ---- C2 (Spec) -----------------------------------------------------------
\* C2 as stated: when the release the URL was taken from has an asset whose
\* name contains the first target, the URL chosen is of such an asset,
\* wherever it sits in the asset list.
C2_FirstTargetPreferred ==
  pc = "download" =>
    \A i \in 1..Len(Listing) :
      ( /\ \E a \in 1..Len(Listing[i].assets) :
             release[1].downloadUrl = Listing[i].assets[a].browser_download_url
        /\ \E a \in 1..Len(Listing[i].assets) :
             Includes(Listing[i].assets[a].name, targets[1]) )
      => Includes(release[1].downloadUrl.file, targets[1])

\* ---- C5 (Spec) -----------------------------------------------------------
\* The combined spec carries an @version: an "@" with something after it.
RepoHasVersion(in) == \E i \in 1..(Len(in.repo) - 1) : in.repo[i] = "@"

Conflicting(in) ==
  \/ in.repo # <<>> /\ (in.owner # "" \/ in.name # "")
  \/ RepoHasVersion(in) /\ in.version # ""

\* C5: with conflicting inputs main has reported one failure and is done,
\* and nothing of checkOrInstallTool has run: no cache lookup, no listing,
\* no download, no extraction, no cache write.
C5_ConflictRejected ==
  caller = "main" /\ Conflicting(inputs) =>
    /\ pc = "done"
    /\ Len(outcome.failed) = 1
    /\ outcome.paths = <<>>
    /\ outcome.infos = <<>>
    /\ ops = NoOps
    /\ pages = <<>>
    /\ cache = {}

C5_Witness ==
  /\ caller = "main"
  /\ pc = "done"
  /\ inputs.owner = ""
  /\ inputs.name = ""
  /\ RepoHasVersion(inputs)
  /\ inputs.version # ""
  /\ Len(outcome.failed) = 1

\* ---- C6 (Spec) -----------------------------------------------------------
\* The invocation went through the cache-miss path and has not failed.
InstalledByMiss ==
  pc \in {"return", "returned", "done"} /\ ops.cacheDir = 1 /\ thrown.is = "none"

\* The binary the claim locates in the cached directory.
LocatedBinary ==
  LET files == CachedFiles(cache, dir)
      same == {i \in 1..Len(files) : ToLower(files[i].name) = ToLower(tool.name)}
  IN  IF tool.bin # "" THEN tool.bin
      ELSE IF same # {}
           THEN files[CHOOSE i \in same : \A j \in same : i <= j].name
           ELSE tool.name

\* C6: off Windows, after a successful cache-miss installation the located
\* binary is in the cached directory and executable; an invocation that
\* failed after the access check had also tried chmod; on Windows neither
\* the access check nor chmod is ever made.
C6_PermissionRepair ==
  /\ platform # "win32" /\ InstalledByMiss =>
       \E i \in 1..Len(CachedFiles(cache, dir)) :
         /\ CachedFiles(cache, dir)[i].name = LocatedBinary
         /\ CachedFiles(cache, dir)[i].x
  /\ platform # "win32" /\ thrown.is # "none" /\ ops.access > 0 => ops.chmod > 0
  /\ platform = "win32" => ops.access = 0 /\ ops.chmod = 0

\* A binary that came out of the archive without its executable bit.
C6_Witness ==
  /\ platform # "win32"
  /\ InstalledByMiss
  /\ pc = "done"
  /\ ops.chmod = 1
  /\ tempFiles = <<File("mdbook", FALSE)>>

\* ---- C7 (Spec) -----------------------------------------------------------
SingleDirectory(files) == Len(files) = 1 /\ files[1].kind = "dir"

\* C7: the directory handed to tc.cacheDir is the single inner directory of
\* the extraction directory when there is exactly one entry and it is a
\* directory, else the extraction root; the directory cached holds that
\* directory's entries, however deep the single-directory nesting goes on.
C7_Normalization ==
  /\ pc \in {"cache", "perm"} /\ extractRoot = "temp" =>
       extractPath =
         IF SingleDirectory(tempFiles) THEN <<tempFiles[1].name>> ELSE <<>>
  /\ pc \in {"cache", "perm"} /\ extractRoot = "staging" => extractPath = <<>>
  /\ pc = "perm" /\ extractRoot = "temp" =>
       CachedFiles(cache, dir) =
         IF SingleDirectory(tempFiles) THEN tempFiles[1].sub ELSE tempFiles

\* A directory in a directory: only the outer one is descended into.
C7_Witness ==
  /\ pc = "perm"
  /\ SingleDirectory(tempFiles)
  /\ SingleDirectory(tempFiles[1].sub)
  /\ CachedFiles(cache, dir) = tempFiles[1].sub

\* ---- C8 (Spec) -----------------------------------------------------------
NoMatchingRelease == thrown.is = "Error" /\ thrown.msg[1] = "no release for"

NoneQualifies == \A i \in 1..Len(Listing) : ~Qualifies(Listing[i])

\* C8: getRelease returns a release only if one qualifies; it throws the
\* no-matching-release Error, naming the tool and the constraint, exactly
\* when the last page has been served and no release of any page
\* qualifies; nothing is then downloaded, extracted or cached.
C8_NoMatchingRelease ==
  /\ pc = "download" => ~NoneQualifies
  /\ pc = "then" /\ NoneQualifies => ~hasNext
  /\ NoMatchingRelease =>
       /\ NoneQualifies
       /\ ~hasNext
       /\ pages # <<>>
       /\ thrown.msg = <<"no release for", tool.name, tool.versionSpec>>
       /\ ops.download = 0 /\ ops.extract = 0 /\ ops.mkdir = 0 /\ ops.cacheDir = 0
       /\ cache = {}
       /\ result = <<>>
  /\ pc \in {"caught", "done"} /\ pages # <<>> /\ ~hasNext /\ NoneQualifies =>
       NoMatchingRelease

C8_Witness ==
  /\ NoMatchingRelease
  /\ pc = "done"
  /\ Len(pages) = 2
  /\ tool.versionSpec # ""
  /\ \E i \in 1..Len(Listing) :
       \E a \in 1..Len(Listing[i].assets) : MatchesTarget(Listing[i].assets[a])

\* ---- C9 (Spec) -----------------------------------------------------------
Succeeded ==
  Len(outcome.paths) = 1 /\ Len(outcome.infos) = 1 /\ outcome.failed = <<>>

Failed ==
  Len(outcome.failed) = 1 /\ outcome.paths = <<>> /\ outcome.infos = <<>>

\* C9 as stated: a run of main that has ended has reported a success or
\* else one failure, whatever was thrown.
C9_OneOutcome == caller = "main" /\ pc = "done" => Succeeded \/ Failed

\* ---- C3 (SpecJob) --------------------------------------------------------
\* The invocation before this one installed the same (name, versionSpec)
\* through the cache-miss path, and this one is past its cache check.
Repeated ==
  /\ prev.result # <<>>
  /\ ~prev.hit
  /\ prev.tool.name = tool.name
  /\ prev.tool.versionSpec = tool.versionSpec
  /\ pc \notin {"idle", "find"}

\* C3 as stated: the repeated invocation takes the cache-hit path, lists,
\* downloads, extracts, caches and repairs nothing, and returns what the
\* first returned.
C3_Idempotent ==
  Repeated =>
    /\ dir # NoDir
    /\ thrown.is = "none"
    /\ ops = [NoOps EXCEPT !.find = 1]
    /\ pc = "done" => result = prev.result

\* ---- C11 (Spec) ----------------------------------------------------------
\* The page holds a release that qualifies.
Yields(page) == \E i \in 1..Len(page) : Qualifies(page[i])

\* C11: every page received but the last one yielded no qualifying
\* release, so page k+1 was requested only after pages 1..k yielded none;
\* once the last page received yields one, the listing is over (no request
\* is pending or possible); every request made is one page received, in
\* the order served, or the one request that failed.
C11_EarlyStop ==
  /\ \A k \in 1..(Len(pages) - 1) : ~Yields(pages[k])
  /\ pages # <<>> /\ Yields(Last(pages)) => pc # "page"
  /\ pc \in {"page", "then"} => ops.list = Len(pages)
  /\ pc = "caught" /\ pages # <<>> => ops.list \in {Len(pages), Len(pages) + 1}

\* The first page yields a release and names a next page, which is never
\* requested.
C11_Witness ==
  /\ pc = "then"
  /\ Len(pages) = 1
  /\ hasNext
  /\ Yields(pages[1])
  /\ ops.list = 1

\* Two pages: the first yielded nothing, the second was requested.
C11_SecondPage ==
  /\ pc = "then"
  /\ Len(pages) = 2
  /\ ~Yields(pages[1])
  /\ Yields(pages[2])

\* ---- C12 (SpecJob) -------------------------------------------------------
\* The Extracting step of a naked executable has thrown.
StagingFailed ==
  /\ thrown.is = "Error"
  /\ thrown.msg[1] = "Failed to create temporary directory for binary extraction"

\* C12 as stated: once the naked-executable branch has asked for the
\* staging directory, the step has not failed and the extraction directory
\* is the staging directory, whether or not the directory was there before.
C12_StagingIdempotent ==
  ops.mkdir = 1 => ~StagingFailed /\ extractRoot = "staging" /\ extractPath = <<>>

\* ---- C13 (Spec) ----------------------------------------------------------
\* C13 as stated: on the naked-executable path the move has landed before
\* the staging directory is listed and before it is copied, so the
\* directory just stored in the cache holds the file named after the tool.
C13_MoveCompleted ==
  /\ extractRoot = "staging" /\ pc \in {"cache", "perm"} => ~renamePending
  /\ extractRoot = "staging" /\ pc = "perm" =>
       Exists(CachedFiles(cache, dir), tool.name)

\* ---- C14 (SpecJob) -------------------------------------------------------
\* The cache entries without their contents: (name, version, marker).
Entries(c) ==
  {[name |-> e.name, version |-> e.version, complete |-> e.complete] : e \in c}

\* The pipeline's steps in their order.
Rank(p) ==
  CASE p = "idle" -> 0 [] p = "find" -> 1 [] p = "targets" -> 2 [] p = "page" -> 3
    [] p = "then" -> 4 [] p = "download" -> 5 [] p = "extract" -> 6
    [] p = "normalize" -> 7 [] p = "cache" -> 8 [] p = "perm" -> 9
    [] p = "return" -> 10 [] p = "returned" -> 11 [] p = "caught" -> 12
    [] p = "done" -> 13

BeforeCaching == {"targets", "page", "then", "download", "extract", "normalize"}

\* One step of an invocation, as C14 allows it.
C14_Step ==
  \* the pipeline is linear: a step leads to a later one, a listing to its
  \* next page, and the end of an invocation to the next invocation
  /\ \/ Rank(pc') > Rank(pc)
     \/ pc' = pc /\ (pc = "page" \/ ops' = ops)
     \/ pc = "done" /\ pc' = "find"
  \* a failure before Caching ends the pipeline with the cache as it was
  /\ pc \in BeforeCaching /\ thrown'.is # "none" =>
       pc' = "caught" /\ cache' = cache /\ ops'.cacheDir = 0
  /\ pc = "caught" => pc' \in {"caught", "done"} /\ cache' = cache /\ ops' = ops
  \* the cache is read once, at CacheCheck
  /\ ops'.find # ops.find => pc = "find" \/ pc' = "find"
  /\ pc' \notin {"idle", "find"} /\ tool' # NoTool => ops'.find = 1
  \* and written at most once, at Caching, on the cache-miss path; after
  \* it only the permission repair touches the entry just written
  /\ ops'.cacheDir <= 1
  /\ Entries(cache') # Entries(cache) => pc = "cache" /\ ops'.cacheDir = 1
  /\ cache' # cache => pc \in {"cache", "perm"}
  /\ pc = "perm" =>
       {e \in cache' : <<e.name, e.version>> # <<dir[2], dir[3]>>}
         = {e \in cache : <<e.name, e.version>> # <<dir[2], dir[3]>>}
  /\ pc' = "cache" => ops'.list >= 1 /\ ops'.download = 1
  /\ pc = "find" /\ pc' = "return" => cache' = cache /\ ops'.cacheDir = 0

C15_VersionResolved ==
  pc = "returned" /\ ops.cacheDir = 1 => result[1].version = release[1].version

\* ---- C16 (SpecJob) -------------------------------------------------------
\* C16 as stated: off Windows the binary in the directory of every
\* InstalledTool returned is executable, cache hit or cache miss.
C16_ReturnedExecutable ==
  platform # "win32" /\ pc = "returned" =>
    LET files == CachedFiles(cache, result[1].dir)
    IN  Executable(files, BinaryName(tool, files))

\* ---- C17 (SpecJob) -------------------------------------------------------
\* This invocation was served from the cache, with the directory that the
\* invocation before it had installed from a release.
ServedFromPrevious ==
  /\ pc = "returned"
  /\ ops.list = 0
  /\ prev.result # <<>>
  /\ ~prev.hit
  /\ prev.result[1].dir = result[1].dir

\* C17 as stated: the directory returned for (owner, name) was installed
\* from a release of that owner's repository.
C17_SameOwner == ServedFromPrevious => prev.tool.owner = tool.owner

\* ---- C18 (SpecJob) -------------------------------------------------------
\* C18: the version of an InstalledTool returned for a descriptor with a
\* version constraint satisfies the constraint, on both paths.
C18_VersionSatisfies ==
  result # <<>> /\ tool.versionSpec # "" =>
    Satisfies(result[1].version, tool.versionSpec)

\* A cache hit on a constraint over a cache of two complete versions, one
\* of which does not satisfy it.
C18_Witness ==
  /\ pc = "returned"
  /\ ops.list = 0
  /\ tool.versionSpec # ""
  /\ Cardinality(CompleteVersions(cache, tool.name)) = 2
  /\ \E v \in CompleteVersions(cache, tool.name) : ~Satisfies(v, tool.versionSpec)

\* A cache miss on a constraint.
C18_Miss ==
  /\ pc = "returned"
  /\ ops.cacheDir = 1
  /\ tool.versionSpec = "0.10"

====
